---- MODULE Spec2Model ----
(***************************************************************************)
(* A model of src/socket.h: the socket handle (Socket / TCPSocket), the    *)
(* port scan TryBindHost, the transfer loops SendAll / RecvAll, the        *)
(* readiness multiplexer SelectHelper and Socket::Startup / Finalize, each *)
(* over a small model of the operating system calls they wrap.             *)
(***************************************************************************)
EXTENDS Integers, Sequences, FiniteSets, TLC

(* ------------------------------ bounds -------------------------------- *)
\* number of socket handle objects the program constructs
NumHandles == 2
\* descriptors the kernel can hand out are 0..MaxFd
MaxFd == 1

\* Startup is called while the networking subsystem has been started fewer
\* than MaxStartup times
MaxStartup == 2

\* TryBindHost is called with start_port and end_port in 0..MaxPort
MaxPort == 4
\* buffers passed to the transfer operations hold at most MaxLen bytes
MaxLen == 3
\* the connection holds at most WireCap bytes sent and not yet received
WireCap == 2
\* send() returns 0 at most MaxZero times during one call of SendAll
MaxZero == 1
\* a SelectHelper holds at most MaxWatch registrations in its three lists
MaxWatch == 2
\* the conversion of the timeout is checked for -MaxTimeout..MaxTimeout ms
MaxTimeout == 1100

(* --------------------------- program constants ------------------------ *)
INVALID_SOCKET == -1
\* what TryBindHost returns when it bound no port
NoPort == -1

Handles == 1..NumHandles
Fds == 0..MaxFd

VARIABLES
  \* ---- socket handles and the kernel's descriptor table ----
  constructed,   \* constructed[h]: the handle object h exists
  sockfd,        \* sockfd[h]: Socket::sockfd of handle h
  fdtab,         \* fdtab[fd]: kernel state of descriptor fd: "closed", "open"
                 \* or "listening"
  nonblock,      \* descriptors with O_NONBLOCK set
  res,           \* outcome of the last operation
  hist           \* history of h: "new" (no Close has succeeded), "closed" (no
                 \* successful Create since its last successful Close), "reopened"

VARIABLES
  \* ---- one call of Socket::TryBindHost ----
  tb             \* position in the scan, its arguments, result and the binds made

VARIABLES
  \* ---- a connected pair: one end sends, the other receives ----
  sbuf,          \* the buffer the sending end passes to Send / SendAll
  snd,           \* the sending end's call: position, locals, result, and the
                 \* underlying send() calls it has made
  wire,          \* bytes sent and not yet received
  rcv,           \* the receiving end's call, likewise
  rbuf,          \* the buffer the receiving end passes to Recv / RecvAll
  link,          \* the connection: O_NONBLOCK of each end, write side shut
                 \* down by the sender, connection broken
  sentlog        \* history: every byte put on the wire, in order

VARIABLES
  \* ---- one SelectHelper ----
  read_fds,      \* the three lists of watched descriptors
  write_fds,
  except_fds,
  maxfd,         \* SelectHelper::maxfd
  read_set,      \* the three fd_set members, as sets of descriptors; they
  write_set,     \* are assigned by Select only: until the first Select they
  except_set,    \* hold whatever the memory of the object held
  sel            \* the call of Select: position, arguments, what was passed
                 \* to select(), result; and its history: the descriptors
                 \* of each list when it was called, and the descriptors
                 \* select() reported ready in each set

VARIABLES
  \* ---- the process-wide networking subsystem ----
  wsa            \* win32: the build is the _WIN32 one; started: successful
                 \* WSAStartup calls not yet undone by WSACleanup; version:
                 \* wsa_data.wVersion as <<low byte, high byte>>

hvars == <<constructed, sockfd, fdtab, nonblock, res, hist>>
bvars == <<tb>>
xvars == <<sbuf, snd, wire, rcv, rbuf, link, sentlog>>
svars == <<read_fds, write_fds, except_fds, maxfd, read_set, write_set,
           except_set, sel>>

pvars == <<wsa>>

vars == <<hvars, bvars, xvars, svars, pvars>>

\* what the operations on handles, the port scan, the transfers and the
\* multiplexer leave alone
nothandle == <<bvars, xvars, svars, pvars>>
notbind == <<hvars, xvars, svars, pvars>>
notxfer == <<hvars, bvars, svars, pvars>>
notselect == <<hvars, bvars, xvars, pvars>>
notstartup == <<constructed, sockfd, fdtab, nonblock, hist, bvars, xvars, svars>>

(* ----------------------------- error reports -------------------------- *)
\* utils::Error, reached through Socket::Error: the operation that calls it
\* does not return to its caller; the report names the operation.
Error(op, h, errno) ==
  [op |-> op, h |-> h, status |-> "fatal", errno |-> errno, val |-> INVALID_SOCKET]

\* an operation that returns to its caller with value val
Return(op, h, errno, val) ==
  [op |-> op, h |-> h, status |-> "ok", errno |-> errno, val |-> val]

(* ------------------------ Socket::Startup / Finalize ------------------- *)
\* what WSAStartup returns: 0 when it succeeded, else an error code
\* (WSASYSNOTREADY is 10091); it does not return -1
WSAStartupResults == {0, 10091}

\* wsa_data.wVersion after a successful WSAStartup(MAKEWORD(2, 2)): 2.2, or
\* the highest version below it that the library supports
WinsockVersions == {<<2, 2>>, <<1, 1>>}

NoVersion == <<0, 0>>

WsaErrno(r) == IF r = 0 THEN "none" ELSE "WSASYSNOTREADY"

\* the subsystem after WSACleanup()
WSACleanup(w) == [w EXCEPT !.started = IF @ > 0 THEN @ - 1 ELSE 0]

\* Socket::Startup: nothing without _WIN32; with it, WSAStartup, the test
\* of its result against -1, and the test of the version
Startup ==
  /\ wsa.started < MaxStartup
  /\ IF ~wsa.win32
     THEN /\ res' = Return("Startup", 0, "none", 0)
          /\ UNCHANGED wsa
     ELSE \E r \in WSAStartupResults, v \in WinsockVersions :
            LET w == IF r = 0
                     THEN [wsa EXCEPT !.started = @ + 1, !.version = v]
                     ELSE [wsa EXCEPT !.version = NoVersion] IN
            IF r # -1
            THEN /\ res' = Error("Startup", 0, WsaErrno(r))
                 /\ wsa' = w
            ELSE IF w.version # <<2, 2>>
            THEN /\ res' = Error("Startup", 0, "none")
                 /\ wsa' = WSACleanup(w)
            ELSE /\ res' = Return("Startup", 0, "none", 0)
                 /\ wsa' = w
  /\ UNCHANGED notstartup

\* Socket::Finalize: nothing without _WIN32; with it, WSACleanup(), whose
\* result is not examined
Finalize ==
  /\ IF ~wsa.win32
     THEN /\ res' = Return("Finalize", 0, "none", 0)
          /\ UNCHANGED wsa
     ELSE /\ res' = Return("Finalize", 0,
                           IF wsa.started = 0 THEN "WSANOTINITIALISED" ELSE "none", 0)
          /\ wsa' = WSACleanup(wsa)
  /\ UNCHANGED notstartup

\* the build without _WIN32, which the other operations are modelled for
Posix == wsa = [win32 |-> FALSE, started |-> 0, version |-> NoVersion]

(* ------------------------------- kernel ------------------------------- *)
IsOpen(fd) == fd \in Fds /\ fdtab[fd] # "closed"

FreeFds == {fd \in Fds : fdtab[fd] = "closed"}

\* POSIX hands out the lowest-numbered descriptor that is not open
LowestFree == CHOOSE fd \in FreeFds : \A g \in FreeFds : fd <= g

\* close(fd): an open descriptor is released, anything else is EBADF (ignored
\* by the caller)
KernelClose(fd) ==
  IF IsOpen(fd) THEN [fdtab EXCEPT ![fd] = "closed"] ELSE fdtab

(* --------------------------- handle objects --------------------------- *)
\* handle objects are numbered in the order of their construction: h is the
\* next object to be constructed
NextObject(h) == ~constructed[h] /\ \A g \in Handles : g < h => constructed[g]

\* TCPSocket(void) : Socket(INVALID_SOCKET)
DefaultConstruct(h) ==
  /\ NextObject(h)
  /\ constructed' = [constructed EXCEPT ![h] = TRUE]
  /\ sockfd' = [sockfd EXCEPT ![h] = INVALID_SOCKET]
  /\ res' = Return("TCPSocket", h, "none", INVALID_SOCKET)
  /\ UNCHANGED <<fdtab, nonblock, hist>>
  /\ UNCHANGED nothandle

\* the implicit copy constructor of TCPSocket: the new object holds the same
\* descriptor value as the one it is copied from
CopyConstruct(h, from) ==
  /\ NextObject(h)
  /\ constructed[from]
  /\ constructed' = [constructed EXCEPT ![h] = TRUE]
  /\ sockfd' = [sockfd EXCEPT ![h] = sockfd[from]]
  /\ res' = Return("Copy", h, "none", sockfd[from])
  /\ UNCHANGED <<fdtab, nonblock, hist>>
  /\ UNCHANGED nothandle

\* TCPSocket::Create: sockfd = socket(...); a failed call stores
\* INVALID_SOCKET and reports.  The previous value of sockfd is overwritten.
Create(h) ==
  /\ constructed[h]
  /\ \E fails \in BOOLEAN :
       IF fails \/ FreeFds = {}
       THEN /\ sockfd' = [sockfd EXCEPT ![h] = INVALID_SOCKET]
            /\ res' = Error("Create", h, IF FreeFds = {} THEN "EMFILE" ELSE "ENOMEM")
            /\ UNCHANGED <<fdtab, nonblock, hist>>
       ELSE /\ sockfd' = [sockfd EXCEPT ![h] = LowestFree]
            /\ fdtab' = [fdtab EXCEPT ![LowestFree] = "open"]
            /\ nonblock' = nonblock \ {LowestFree}
            /\ hist' = [hist EXCEPT ![h] = IF @ = "new" THEN "new" ELSE "reopened"]
            /\ res' = Return("Create", h, "none", LowestFree)
  /\ UNCHANGED constructed
  /\ UNCHANGED nothandle

\* Close as it would be if a Close of an invalid handle were a silent no-op
CloseSilent(h) ==
  /\ constructed[h]
  /\ IF sockfd[h] # INVALID_SOCKET
     THEN /\ fdtab' = KernelClose(sockfd[h])
          /\ sockfd' = [sockfd EXCEPT ![h] = INVALID_SOCKET]
          /\ hist' = [hist EXCEPT ![h] = "closed"]
          /\ nonblock' = nonblock \ {sockfd[h]}
          /\ res' = Return("Close", h, "none", 0)
     ELSE /\ res' = Return("Close", h, "none", 0)
          /\ UNCHANGED <<sockfd, fdtab, nonblock, hist>>
  /\ UNCHANGED constructed
  /\ UNCHANGED nothandle

\* Close as it would be if it released the descriptor and kept sockfd
CloseKeepsFd(h) ==
  /\ constructed[h]
  /\ IF sockfd[h] # INVALID_SOCKET
     THEN /\ fdtab' = KernelClose(sockfd[h])
          /\ hist' = [hist EXCEPT ![h] = "closed"]
          /\ nonblock' = nonblock \ {sockfd[h]}
          /\ res' = Return("Close", h, "none", 0)
          /\ UNCHANGED sockfd
     ELSE /\ res' = Error("Close", h, "none")
          /\ UNCHANGED <<sockfd, fdtab, nonblock, hist>>
  /\ UNCHANGED constructed
  /\ UNCHANGED nothandle

\* Socket::Close
Close(h) ==
  /\ constructed[h]
  /\ IF sockfd[h] # INVALID_SOCKET
     THEN /\ fdtab' = KernelClose(sockfd[h])
          /\ sockfd' = [sockfd EXCEPT ![h] = INVALID_SOCKET]
          /\ hist' = [hist EXCEPT ![h] = "closed"]
          /\ nonblock' = nonblock \ {sockfd[h]}
          /\ res' = Return("Close", h, "none", 0)
     ELSE /\ res' = Error("Close", h, "none")
          /\ UNCHANGED <<sockfd, fdtab, nonblock, hist>>
  /\ UNCHANGED constructed
  /\ UNCHANGED nothandle

\* Socket::SetNonBlock (POSIX branch): fcntl(F_GETFL) then fcntl(F_SETFL);
\* either call failing reports
SetNonBlock(h, non_block) ==
  /\ constructed[h]
  /\ IF ~IsOpen(sockfd[h])
     THEN /\ res' = Error("SetNonBlock", h, "EBADF")
          /\ UNCHANGED nonblock
     ELSE /\ nonblock' = IF non_block THEN nonblock \cup {sockfd[h]}
                                      ELSE nonblock \ {sockfd[h]}
          /\ res' = Return("SetNonBlock", h, "none", 0)
  /\ UNCHANGED <<constructed, sockfd, fdtab, hist>>
  /\ UNCHANGED nothandle

\* errno of bind(fd, ...); whether the address is in use is the environment's
\* choice (the table of bound addresses is not part of the state); "none"
\* when the call succeeds
BindErrno(fd, inuse) ==
  IF ~IsOpen(fd) THEN "EBADF"
  ELSE IF fdtab[fd] # "open" THEN "EINVAL"
  ELSE IF inuse THEN "EADDRINUSE"
  ELSE "none"

\* Socket::Bind: a bind that returns -1 reports, whatever errno is
Bind(h) ==
  /\ constructed[h]
  /\ \E inuse \in BOOLEAN :
       LET e == BindErrno(sockfd[h], inuse) IN
       IF e # "none"
       THEN res' = Error("Bind", h, e)
       ELSE res' = Return("Bind", h, "none", 0)
  /\ UNCHANGED <<constructed, sockfd, fdtab, nonblock, hist>>
  /\ UNCHANGED nothandle

\* errno of listen(fd, backlog).  Whether a descriptor is connected is not
\* part of the state: refused is the environment's choice (listen() on a
\* connected descriptor is EINVAL).
ListenErrno(fd, refused) ==
  IF ~IsOpen(fd) THEN "EBADF"
  ELSE IF refused THEN "EINVAL"
  ELSE "none"

\* TCPSocket::Listen: the result of listen() is not examined
Listen(h) ==
  /\ constructed[h]
  /\ \E refused \in BOOLEAN :
       LET e == ListenErrno(sockfd[h], refused) IN
       /\ fdtab' = IF e = "none" THEN [fdtab EXCEPT ![sockfd[h]] = "listening"]
                                 ELSE fdtab
       /\ res' = Return("Listen", h, e, 0)
  /\ UNCHANGED <<constructed, sockfd, nonblock, hist>>
  /\ UNCHANGED nothandle

\* errno of accept(fd, NULL, NULL); arrived: a connection is waiting in the
\* backlog.  "none" when a descriptor is returned, "block" when the call
\* does not return yet (blocking descriptor, empty backlog).
AcceptErrno(fd, arrived) ==
  IF ~IsOpen(fd) THEN "EBADF"
  ELSE IF fdtab[fd] # "listening" THEN "EINVAL"
  ELSE IF ~arrived THEN (IF fd \in nonblock THEN "EWOULDBLOCK" ELSE "block")
  ELSE IF FreeFds = {} THEN "EMFILE"
  ELSE "none"

\* Accept as it would be if it stored the new descriptor in the listening
\* handle as well as in the handle it returns
AcceptReplaces(h, newh) ==
  /\ constructed[h]
  /\ NextObject(newh)
  /\ \E arrived \in BOOLEAN :
       LET e == AcceptErrno(sockfd[h], arrived) IN
       /\ e # "block"
       /\ IF e # "none"
          THEN /\ res' = Error("Accept", h, e)
               /\ UNCHANGED <<constructed, sockfd, fdtab, nonblock>>
          ELSE /\ fdtab' = [fdtab EXCEPT ![LowestFree] = "open"]
               /\ nonblock' = nonblock \ {LowestFree}
               /\ constructed' = [constructed EXCEPT ![newh] = TRUE]
               /\ sockfd' = [sockfd EXCEPT ![newh] = LowestFree, ![h] = LowestFree]
               /\ res' = Return("Accept", h, "none", LowestFree)
  /\ UNCHANGED hist
  /\ UNCHANGED nothandle

\* TCPSocket::Accept: newfd == INVALID_SOCKET reports, whatever errno is;
\* otherwise a new handle object newh is constructed around newfd
Accept(h, newh) ==
  /\ constructed[h]
  /\ NextObject(newh)
  /\ \E arrived \in BOOLEAN :
       LET e == AcceptErrno(sockfd[h], arrived) IN
       /\ e # "block"
       /\ IF e # "none"
          THEN /\ res' = Error("Accept", h, e)
               /\ UNCHANGED <<constructed, sockfd, fdtab, nonblock>>
          ELSE /\ fdtab' = [fdtab EXCEPT ![LowestFree] = "open"]
               /\ nonblock' = nonblock \ {LowestFree}
               /\ constructed' = [constructed EXCEPT ![newh] = TRUE]
               /\ sockfd' = [sockfd EXCEPT ![newh] = LowestFree]
               /\ res' = Return("Accept", h, "none", LowestFree)
  /\ UNCHANGED hist
  /\ UNCHANGED nothandle

\* errno of connect(fd, ...); reachable: the peer accepts at once (the
\* environment's choice; a descriptor that is already connected is one of
\* the cases of ~reachable)
ConnectErrno(fd, reachable) ==
  IF ~IsOpen(fd) THEN "EBADF"
  ELSE IF fdtab[fd] = "listening" THEN "EINVAL"
  ELSE IF ~reachable THEN (IF fd \in nonblock THEN "EINPROGRESS" ELSE "ECONNREFUSED")
  ELSE "none"

\* Connect as it would be if a failed connect() were reported like a failed
\* bind()
ConnectChecked(h) ==
  /\ constructed[h]
  /\ \E reachable \in BOOLEAN :
       LET e == ConnectErrno(sockfd[h], reachable) IN
       IF e # "none"
       THEN res' = Error("Connect", h, e)
       ELSE res' = Return("Connect", h, "none", 1)
  /\ UNCHANGED <<constructed, sockfd, fdtab, nonblock, hist>>
  /\ UNCHANGED nothandle

\* TCPSocket::Connect: returns connect(...) == 0
Connect(h) ==
  /\ constructed[h]
  /\ \E reachable \in BOOLEAN :
       LET e == ConnectErrno(sockfd[h], reachable) IN
       res' = Return("Connect", h, e, IF e = "none" THEN 1 ELSE 0)
  /\ UNCHANGED <<constructed, sockfd, fdtab, nonblock, hist>>
  /\ UNCHANGED nothandle

(* ------------------------- Socket::TryBindHost ------------------------ *)
Ports == 0..MaxPort

\* errno after bind(): "none" when it returned 0
BindOutcomes == {"none", "EADDRINUSE", "EACCES", "EBADF"}

TbIdle ==
  [pc |-> "idle", start_port |-> 0, end_port |-> 0, port |-> 0, ret |-> 0,
   tried |-> <<>>]

\* the loop as it would be with the test port <= end_port
TryBindMoreInclusive(t) == t.port <= t.end_port

\* the loop test port < end_port
TryBindMore(t) == t.port < t.end_port

\* the body as it would be without the test of errno
TryBindBodyNoErrno(t, e) ==
  LET t1 == [t EXCEPT !.tried = Append(@, [port |-> t.port, errno |-> e])] IN
  IF e = "none" THEN [t1 EXCEPT !.pc = "returned", !.ret = t.port]
  ELSE [t1 EXCEPT !.port = @ + 1]

\* the body of the loop for the port t.port, the bind ending with errno e:
\* return the port, report, or go on to port + 1
TryBindBody(t, e) ==
  LET t1 == [t EXCEPT !.tried = Append(@, [port |-> t.port, errno |-> e])] IN
  IF e = "none" THEN [t1 EXCEPT !.pc = "returned", !.ret = t.port]
  ELSE IF e # "EADDRINUSE" THEN [t1 EXCEPT !.pc = "fatal"]
  ELSE [t1 EXCEPT !.port = @ + 1]

\* int port = start_port
TryBindHost(start_port, end_port) ==
  /\ tb.pc # "scan"
  /\ tb' = [pc |-> "scan", start_port |-> start_port, end_port |-> end_port,
            port |-> start_port, ret |-> 0, tried |-> <<>>]
  /\ UNCHANGED notbind

\* one turn of the loop; the outcome of bind() is the environment's
TryBindStep ==
  /\ tb.pc = "scan"
  /\ IF TryBindMore(tb)
     THEN \E e \in BindOutcomes : tb' = TryBindBody(tb, e)
     ELSE tb' = [tb EXCEPT !.pc = "returned", !.ret = NoPort]
  /\ UNCHANGED notbind

(* ---------------- TCPSocket::Send / Recv / SendAll / RecvAll ----------- *)
\* two byte values are enough to tell bytes apart; Junk is what a buffer
\* position holds before anything is stored in it
Bytes == {"a", "b"}
Junk == "?"

Min(a, b) == IF a < b THEN a ELSE b

Buffers == UNION {[1..n -> Bytes] : n \in 0..MaxLen}

\* the byte at position i of buf (counted from 1)
At(buf, i) == IF i \in DOMAIN buf THEN buf[i] ELSE Junk

\* the n bytes of buf that follow offset off
Slice(buf, off, n) == [j \in 1..n |-> At(buf, off + j)]

\* buf with data stored from offset off on
Store(buf, off, data) ==
  [i \in DOMAIN buf |->
     IF off < i /\ i <= off + Len(data) THEN data[i - off] ELSE buf[i]]

CallIdle ==
  [pc |-> "idle", op |-> "none", len |-> 0, buf |-> 0, ndone |-> 0, ret |-> 0,
   calls |-> <<>>]

NewCall(op, len) ==
  [pc |-> "loop", op |-> op, len |-> len, buf |-> 0, ndone |-> 0, ret |-> 0,
   calls |-> <<>>]

WouldBlock(e) == e \in {"EAGAIN", "EWOULDBLOCK"}

\* the size SendAll would pass to send() if it asked for len every time
RequestWhole(c) == c.len

\* the size SendAll and RecvAll pass to send() and recv(): len - ndone
Request(c) == c.len - c.ndone

\* the offset SendAll would send from if buf were not advanced
FromStart(c) == 0

\* the offset in the caller's buffer that SendAll sends from and RecvAll
\* stores to: buf, advanced by every transfer
Offset(c) == c.buf

\* what RecvAll would do after recv() if a result of 0 were taken for a failure
RecvAllAfterZeroFatal(c, got, e) ==
  LET c1 == [c EXCEPT !.calls = Append(@, [req |-> Request(c), got |-> got, errno |-> e])] IN
  IF got = -1
  THEN IF WouldBlock(e) THEN [c1 EXCEPT !.pc = "returned", !.ret = c.ndone]
       ELSE [c1 EXCEPT !.pc = "fatal"]
  ELSE IF got = 0 THEN [c1 EXCEPT !.pc = "fatal"]
  ELSE [c1 EXCEPT !.buf = @ + got, !.ndone = @ + got]

\* what SendAll does after send() returned got (errno e when got = -1)
SendAllAfter(c, got, e) ==
  LET c1 == [c EXCEPT !.calls = Append(@, [req |-> Request(c), got |-> got, errno |-> e])] IN
  IF got = -1
  THEN IF WouldBlock(e) THEN [c1 EXCEPT !.pc = "returned", !.ret = c.ndone]
       ELSE [c1 EXCEPT !.pc = "fatal"]
  ELSE [c1 EXCEPT !.buf = @ + got, !.ndone = @ + got]

\* what RecvAll does after recv() returned got (errno e when got = -1)
RecvAllAfter(c, got, e) ==
  LET c1 == [c EXCEPT !.calls = Append(@, [req |-> Request(c), got |-> got, errno |-> e])] IN
  IF got = -1
  THEN IF WouldBlock(e) THEN [c1 EXCEPT !.pc = "returned", !.ret = c.ndone]
       ELSE [c1 EXCEPT !.pc = "fatal"]
  ELSE IF got = 0 THEN [c1 EXCEPT !.pc = "returned", !.ret = c.ndone]
  ELSE [c1 EXCEPT !.buf = @ + got, !.ndone = @ + got]

\* the underlying calls of a call that returned 0
Zeros(calls) == Cardinality({i \in DOMAIN calls : calls[i].got = 0})

\* send(fd, data, req, 0) by the sending end.  SendOutcomes(req) is the set
\* of <<got, errno>> the call can end with now: a failure, a count between
\* 1 and req of bytes taken, 0 (no byte taken, which the interface of send()
\* allows as a result), or would-block; without the result 0 it is empty
\* while the call blocks (blocking descriptor, no room on the connection).
SendOutcomes(req) ==
  IF link.broken THEN {<<-1, "ECONNRESET">>}
  ELSE {<<0, "none">>} \cup
       (IF Len(wire) < WireCap
        THEN {<<k, "none">> : k \in 1..Min(req, WireCap - Len(wire))}
        ELSE IF link.snb THEN {<<-1, "EWOULDBLOCK">>}
        ELSE {})

\* the connection after send() took got bytes from offset off of sbuf
WireAfterSend(off, got) ==
  IF got > 0 THEN wire \o Slice(sbuf, off, got) ELSE wire

\* recv(fd, buf, req, flags) by the receiving end: a result of 0 is the
\* sender's shutdown seen after the last byte
RecvOutcomes(req) ==
  IF link.broken THEN {<<-1, "ECONNRESET">>}
  ELSE IF wire # <<>>
       THEN {<<k, "none">> : k \in 1..Min(req, Len(wire))}
  ELSE IF link.shut THEN {<<0, "none">>}
  ELSE IF link.rnb THEN {<<-1, "EWOULDBLOCK">>}
  ELSE {}

\* TCPSocket::SendAll is called with the whole of sbuf
SendAllCall ==
  /\ snd.pc = "idle" /\ ~link.shut
  /\ snd' = NewCall("SendAll", Len(sbuf))
  /\ UNCHANGED <<sbuf, wire, rcv, rbuf, link, sentlog>>
  /\ UNCHANGED notxfer

\* one test of the loop condition of SendAll and, if it holds, one turn
SendAllStep ==
  /\ snd.pc = "loop" /\ snd.op = "SendAll"
  /\ IF snd.ndone < snd.len
     THEN \E o \in SendOutcomes(Request(snd)) :
            /\ o[1] = 0 => Zeros(snd.calls) < MaxZero
            /\ snd' = SendAllAfter(snd, o[1], o[2])
            /\ wire' = WireAfterSend(Offset(snd), o[1])
            /\ sentlog' = IF o[1] > 0
                          THEN sentlog \o Slice(sbuf, Offset(snd), o[1])
                          ELSE sentlog
     ELSE /\ snd' = [snd EXCEPT !.pc = "returned", !.ret = snd.ndone]
          /\ UNCHANGED <<wire, sentlog>>
  /\ UNCHANGED <<sbuf, rcv, rbuf, link>>
  /\ UNCHANGED notxfer

\* Send as it would be without the test of len: send() is called for every
\* len
SendAlways(len) ==
  /\ snd.pc = "idle" /\ ~link.shut
  /\ \E o \in SendOutcomes(len) :
       /\ snd' = [NewCall("Send", len) EXCEPT
                    !.pc = "returned", !.ret = o[1],
                    !.calls = <<[req |-> len, got |-> o[1], errno |-> o[2]]>>]
       /\ wire' = WireAfterSend(0, o[1])
       /\ sentlog' = IF o[1] > 0 THEN sentlog \o Slice(sbuf, 0, o[1])
                                 ELSE sentlog
  /\ UNCHANGED <<sbuf, rcv, rbuf, link>>
  /\ UNCHANGED notxfer

\* TCPSocket::Send with the first len bytes of sbuf: 0 for len = 0 without a
\* call of send(), else the result of one send()
Send(len) ==
  /\ snd.pc = "idle" /\ ~link.shut
  /\ IF len = 0
     THEN /\ snd' = [NewCall("Send", len) EXCEPT !.pc = "returned", !.ret = 0]
          /\ UNCHANGED <<wire, sentlog>>
     ELSE \E o \in SendOutcomes(len) :
            /\ snd' = [NewCall("Send", len) EXCEPT
                         !.pc = "returned", !.ret = o[1],
                         !.calls = <<[req |-> len, got |-> o[1], errno |-> o[2]]>>]
            /\ wire' = WireAfterSend(0, o[1])
            /\ sentlog' = IF o[1] > 0 THEN sentlog \o Slice(sbuf, 0, o[1])
                                      ELSE sentlog
  /\ UNCHANGED <<sbuf, rcv, rbuf, link>>
  /\ UNCHANGED notxfer

\* TCPSocket::RecvAll is called with a buffer of len bytes
RecvAllCall(len) ==
  /\ rcv.pc = "idle"
  /\ rcv' = NewCall("RecvAll", len)
  /\ rbuf' = [i \in 1..len |-> Junk]
  /\ UNCHANGED <<sbuf, snd, wire, link, sentlog>>
  /\ UNCHANGED notxfer

\* one test of the loop condition of RecvAll and, if it holds, one turn
RecvAllStep ==
  /\ rcv.pc = "loop" /\ rcv.op = "RecvAll"
  /\ IF rcv.ndone < rcv.len
     THEN \E o \in RecvOutcomes(Request(rcv)) :
            /\ rcv' = RecvAllAfter(rcv, o[1], o[2])
            /\ rbuf' = IF o[1] > 0
                       THEN Store(rbuf, Offset(rcv), SubSeq(wire, 1, o[1]))
                       ELSE rbuf
            /\ wire' = IF o[1] > 0 THEN SubSeq(wire, o[1] + 1, Len(wire))
                                   ELSE wire
     ELSE /\ rcv' = [rcv EXCEPT !.pc = "returned", !.ret = rcv.ndone]
          /\ UNCHANGED <<wire, rbuf>>
  /\ UNCHANGED <<sbuf, snd, link, sentlog>>
  /\ UNCHANGED notxfer

\* TCPSocket::Recv with a buffer of len bytes: 0 for len = 0 without a call
\* of recv(), else the result of one recv()
Recv(len) ==
  /\ rcv.pc = "idle"
  /\ IF len = 0
     THEN /\ rcv' = [NewCall("Recv", len) EXCEPT !.pc = "returned", !.ret = 0]
          /\ rbuf' = <<>>
          /\ UNCHANGED wire
     ELSE \E o \in RecvOutcomes(len) :
            /\ rcv' = [NewCall("Recv", len) EXCEPT
                         !.pc = "returned", !.ret = o[1],
                         !.calls = <<[req |-> len, got |-> o[1], errno |-> o[2]]>>]
            /\ rbuf' = IF o[1] > 0
                       THEN Store([i \in 1..len |-> Junk], 0, SubSeq(wire, 1, o[1]))
                       ELSE [i \in 1..len |-> Junk]
            /\ wire' = IF o[1] > 0 THEN SubSeq(wire, o[1] + 1, Len(wire))
                                   ELSE wire
  /\ UNCHANGED <<sbuf, snd, link, sentlog>>
  /\ UNCHANGED notxfer

\* the sending end closes its write side, after what it sent
PeerShutdown ==
  /\ snd.pc # "loop" /\ ~link.shut
  /\ link' = [link EXCEPT !.shut = TRUE]
  /\ UNCHANGED <<sbuf, snd, wire, rcv, rbuf, sentlog>>
  /\ UNCHANGED notxfer

\* the connection is interrupted
Interrupt ==
  /\ ~link.broken
  /\ link' = [link EXCEPT !.broken = TRUE]
  /\ UNCHANGED <<sbuf, snd, wire, rcv, rbuf, sentlog>>
  /\ UNCHANGED notxfer

XferIdle ==
  /\ sbuf = <<>> /\ snd = CallIdle /\ wire = <<>> /\ rcv = CallIdle
  /\ rbuf = <<>> /\ sentlog = <<>>
  /\ link = [snb |-> FALSE, rnb |-> FALSE, shut |-> FALSE, broken |-> FALSE]

\* a connected pair, each end blocking or not, and a buffer to send
InitXfer ==
  /\ sbuf \in Buffers
  /\ snd = CallIdle /\ wire = <<>> /\ rcv = CallIdle
  /\ rbuf = <<>> /\ sentlog = <<>>
  /\ \E snb \in BOOLEAN, rnb \in BOOLEAN :
       link = [snb |-> snb, rnb |-> rnb, shut |-> FALSE, broken |-> FALSE]

(* ------------------------------ SelectHelper --------------------------- *)
\* the descriptors of a list
Members(fds) == {fds[i] : i \in DOMAIN fds}

Registered == Len(read_fds) + Len(write_fds) + Len(except_fds)

\* the values Select is called with on a SelectHelper in use, in
\* milliseconds: no timeout, and one; the conversion is checked for the
\* whole of TimeoutRange
Timeouts == {0, 2500}

\* / and % of C on long, which truncate toward zero
CDiv(a, b) == IF a >= 0 THEN a \div b ELSE -((-a) \div b)
CMod(a, b) == a - b * CDiv(a, b)

\* the timeval Select would pass if it took its argument for microseconds
TimevalMicro(timeout) ==
  IF timeout = 0
  THEN [null |-> TRUE, tv_sec |-> 0, tv_usec |-> 0]
  ELSE [null |-> FALSE, tv_sec |-> CDiv(timeout, 1000000),
        tv_usec |-> CMod(timeout, 1000000)]

\* the timeval Select would pass if it took no timeout for every argument
TimevalNever(timeout) == [null |-> TRUE, tv_sec |-> 0, tv_usec |-> 0]

\* the last argument of select(): NULL for timeout == 0, else tm
Timeval(timeout) ==
  IF timeout = 0
  THEN [null |-> TRUE, tv_sec |-> 0, tv_usec |-> 0]
  ELSE [null |-> FALSE, tv_sec |-> CDiv(timeout, 1000),
        tv_usec |-> CMod(timeout, 1000) * 1000]

NoneReady == <<{}, {}, {}>>

SelIdle ==
  [pc |-> "idle", timeout |-> 0, nfds |-> 0, watched |-> 0,
   tm |-> [null |-> TRUE, tv_sec |-> 0, tv_usec |-> 0], ret |-> 0,
   reg |-> NoneReady, ready |-> NoneReady]

\* SelectHelper::WatchRead
WatchRead(fd) ==
  /\ sel.pc # "waiting" /\ Registered < MaxWatch
  /\ read_fds' = Append(read_fds, fd)
  /\ maxfd' = IF fd > maxfd THEN fd ELSE maxfd
  /\ UNCHANGED <<write_fds, except_fds, read_set, write_set, except_set, sel>>
  /\ UNCHANGED notselect

\* SelectHelper::WatchWrite
WatchWrite(fd) ==
  /\ sel.pc # "waiting" /\ Registered < MaxWatch
  /\ write_fds' = Append(write_fds, fd)
  /\ maxfd' = IF fd > maxfd THEN fd ELSE maxfd
  /\ UNCHANGED <<read_fds, except_fds, read_set, write_set, except_set, sel>>
  /\ UNCHANGED notselect

\* SelectHelper::WatchException
WatchException(fd) ==
  /\ sel.pc # "waiting" /\ Registered < MaxWatch
  /\ except_fds' = Append(except_fds, fd)
  /\ maxfd' = IF fd > maxfd THEN fd ELSE maxfd
  /\ UNCHANGED <<read_fds, write_fds, read_set, write_set, except_set, sel>>
  /\ UNCHANGED notselect

\* SelectHelper::CheckRead / CheckWrite / CheckExcept: FD_ISSET on the sets
\* the last Select left
CheckRead(fd) == fd \in read_set
CheckWrite(fd) == fd \in write_set
CheckExcept(fd) == fd \in except_set

\* Clear as it would be if it left maxfd alone
ClearKeepsMax ==
  /\ sel.pc # "waiting"
  /\ read_fds' = <<>> /\ write_fds' = <<>> /\ except_fds' = <<>>
  /\ UNCHANGED <<maxfd, read_set, write_set, except_set, sel>>
  /\ UNCHANGED notselect

\* SelectHelper::Clear
Clear ==
  /\ sel.pc # "waiting"
  /\ read_fds' = <<>> /\ write_fds' = <<>> /\ except_fds' = <<>>
  /\ maxfd' = 0
  /\ UNCHANGED <<read_set, write_set, except_set, sel>>
  /\ UNCHANGED notselect

\* Select as it would be if it cleared the registrations it has passed on
SelectClears(timeout) ==
  /\ sel.pc # "waiting"
  /\ read_set' = Members(read_fds)
  /\ write_set' = Members(write_fds)
  /\ except_set' = Members(except_fds)
  /\ sel' = [pc |-> "waiting", timeout |-> timeout, nfds |-> maxfd + 1,
             watched |-> Registered, tm |-> Timeval(timeout), ret |-> 0,
             reg |-> <<Members(read_fds), Members(write_fds),
                       Members(except_fds)>>,
             ready |-> NoneReady]
  /\ read_fds' = <<>> /\ write_fds' = <<>> /\ except_fds' = <<>>
  /\ maxfd' = 0
  /\ UNCHANGED notselect

\* Select as it would be without the three FD_ZERO
SelectNoZero(timeout) ==
  /\ sel.pc # "waiting"
  /\ read_set' = read_set \cup Members(read_fds)
  /\ write_set' = write_set \cup Members(write_fds)
  /\ except_set' = except_set \cup Members(except_fds)
  /\ sel' = [pc |-> "waiting", timeout |-> timeout, nfds |-> maxfd + 1,
             watched |-> Registered, tm |-> Timeval(timeout), ret |-> 0,
             reg |-> <<Members(read_fds), Members(write_fds),
                       Members(except_fds)>>,
             ready |-> NoneReady]
  /\ UNCHANGED <<read_fds, write_fds, except_fds, maxfd>>
  /\ UNCHANGED notselect

\* SelectHelper::Select up to the call of select(): FD_ZERO and FD_SET of
\* the three sets from the three lists, and the timeval
Select(timeout) ==
  /\ sel.pc # "waiting"
  /\ read_set' = Members(read_fds)
  /\ write_set' = Members(write_fds)
  /\ except_set' = Members(except_fds)
  /\ sel' = [pc |-> "waiting", timeout |-> timeout, nfds |-> maxfd + 1,
             watched |-> Registered, tm |-> Timeval(timeout), ret |-> 0,
             reg |-> <<Members(read_fds), Members(write_fds),
                       Members(except_fds)>>,
             ready |-> NoneReady]
  /\ UNCHANGED <<read_fds, write_fds, except_fds, maxfd>>
  /\ UNCHANGED notselect

\* select() looks at the descriptors below nfds of each set
Examined(set) == {fd \in set : fd < sel.nfds}

\* errno of a select() that fails: a descriptor of the sets is not open
\* (bad, the environment's choice when a descriptor is looked at), or the
\* timeval is not a duration.  No signal handler is installed, so the wait
\* is not interrupted.
SelectErrno(bad) ==
  IF ~sel.tm.null /\ (sel.tm.tv_sec < 0 \/ sel.tm.tv_usec < 0)
  THEN "EINVAL"
  ELSE IF bad /\ Examined(read_set \cup write_set \cup except_set) # {}
  THEN "EBADF"
  ELSE "none"

\* select() returns with some descriptors ready: each set keeps its ready
\* descriptors, the result is their number
SelectReady ==
  /\ sel.pc = "waiting" /\ SelectErrno(FALSE) = "none"
  /\ \E rr \in SUBSET Examined(read_set), ww \in SUBSET Examined(write_set),
        ee \in SUBSET Examined(except_set) :
       /\ Cardinality(rr) + Cardinality(ww) + Cardinality(ee) > 0
       /\ read_set' = rr \cup (read_set \ Examined(read_set))
       /\ write_set' = ww \cup (write_set \ Examined(write_set))
       /\ except_set' = ee \cup (except_set \ Examined(except_set))
       /\ sel' = [sel EXCEPT !.pc = "returned", !.ready = <<rr, ww, ee>>,
                    !.ret = Cardinality(rr) + Cardinality(ww) + Cardinality(ee)]
  /\ UNCHANGED <<read_fds, write_fds, except_fds, maxfd>>
  /\ UNCHANGED notselect

\* select() returns 0 when the time of its timeval has passed with nothing
\* ready; with a NULL timeval it does not
SelectTimeout ==
  /\ sel.pc = "waiting" /\ SelectErrno(FALSE) = "none"
  /\ ~sel.tm.null
  /\ read_set' = read_set \ Examined(read_set)
  /\ write_set' = write_set \ Examined(write_set)
  /\ except_set' = except_set \ Examined(except_set)
  /\ sel' = [sel EXCEPT !.pc = "returned", !.ret = 0]
  /\ UNCHANGED <<read_fds, write_fds, except_fds, maxfd>>
  /\ UNCHANGED notselect

\* select() returns -1: Select reports
SelectFail ==
  /\ sel.pc = "waiting"
  /\ \E bad \in BOOLEAN : SelectErrno(bad) # "none"
  /\ sel' = [sel EXCEPT !.pc = "fatal", !.ret = -1]
  /\ UNCHANGED <<read_fds, write_fds, except_fds, maxfd, read_set, write_set,
                 except_set>>
  /\ UNCHANGED notselect

\* a SelectHelper that is not used: its lists are empty, and so are its sets
SelectorIdle ==
  /\ read_fds = <<>> /\ write_fds = <<>> /\ except_fds = <<>>
  /\ maxfd = 0
  /\ read_set = {} /\ write_set = {} /\ except_set = {}
  /\ sel = SelIdle

\* a SelectHelper after its constructor: Clear() empties the lists and
\* resets maxfd; the three fd_set members are not initialized: each holds
\* what its memory held, taken here with no bit or with every bit set
SelectorNew ==
  /\ read_fds = <<>> /\ write_fds = <<>> /\ except_fds = <<>>
  /\ maxfd = 0
  /\ read_set \in {{}, Fds} /\ write_set \in {{}, Fds}
  /\ except_set \in {{}, Fds}
  /\ sel = SelIdle

InitHandles ==
  /\ constructed = [h \in Handles |-> FALSE]
  /\ sockfd = [h \in Handles |-> INVALID_SOCKET]
  /\ fdtab = [fd \in Fds |-> "closed"]
  /\ nonblock = {}
  /\ res = Return("none", 0, "none", 0)
  /\ hist = [h \in Handles |-> "new"]

Init == InitHandles /\ tb = TbIdle /\ XferIdle /\ SelectorIdle /\ Posix

Next ==
  \/ \E h \in Handles : DefaultConstruct(h)
  \/ \E h \in Handles, from \in Handles : CopyConstruct(h, from)
  \/ \E h \in Handles : Create(h)
  \/ \E h \in Handles : Close(h)
  \/ \E h \in Handles, non_block \in BOOLEAN : SetNonBlock(h, non_block)
  \/ \E h \in Handles : Bind(h)
  \/ \E h \in Handles : Listen(h)
  \/ \E h \in Handles, newh \in Handles : Accept(h, newh)
  \/ \E h \in Handles : Connect(h)

Spec == Init /\ [][Next]_vars

\* either build, the subsystem not started
InitStartup ==
  /\ InitHandles /\ tb = TbIdle /\ XferIdle /\ SelectorIdle
  /\ wsa \in [win32 : BOOLEAN, started : {0}, version : {NoVersion}]

\* Startup before the sockets are used, Finalize after they are closed
NextStartup ==
  \/ Startup
  \/ Finalize
  \/ \E h \in Handles : DefaultConstruct(h)
  \/ \E h \in Handles : Create(h)
  \/ \E h \in Handles : Close(h)

SpecStartup == InitStartup /\ [][NextStartup]_vars

NextBind ==
  \/ \E start_port \in Ports, end_port \in Ports : TryBindHost(start_port, end_port)
  \/ TryBindStep

SpecBind == Init /\ [][NextBind]_vars

NextXfer ==
  \/ SendAllCall
  \/ SendAllStep
  \/ \E len \in 0..Len(sbuf) : Send(len)
  \/ \E len \in 0..(MaxLen + 1) : RecvAllCall(len)
  \/ RecvAllStep
  \/ \E len \in 0..(MaxLen + 1) : Recv(len)
  \/ PeerShutdown
  \/ Interrupt

InitPair == InitHandles /\ tb = TbIdle /\ InitXfer /\ SelectorIdle /\ Posix

SpecXfer == InitPair /\ [][NextXfer]_vars

NextSelect ==
  \/ \E fd \in Fds : WatchRead(fd)
  \/ \E fd \in Fds : WatchWrite(fd)
  \/ \E fd \in Fds : WatchException(fd)
  \/ Clear
  \/ \E timeout \in Timeouts : Select(timeout)
  \/ SelectReady
  \/ SelectTimeout
  \/ SelectFail

\* Select with nothing registered, for every timeout of the range
TimeoutRange == (-MaxTimeout)..MaxTimeout

NextTimeval ==
  \/ \E timeout \in TimeoutRange : Select(timeout)
  \/ SelectTimeout
  \/ SelectFail

SpecTimeval == Init /\ [][NextTimeval]_vars

InitSelect == InitHandles /\ tb = TbIdle /\ XferIdle /\ SelectorNew /\ Posix

\* the time of a timeval passes
SpecSelect == InitSelect /\ [][NextSelect]_vars /\ WF_vars(SelectTimeout)

(* ======================= properties of the handle ====================== *)
Valid(h) == constructed[h] /\ sockfd[h] # INVALID_SOCKET

\* the step just taken is operation op on handle h
Did(op, h) == res'.op = op /\ res'.h = h

\* C1: a Close of a handle that holds a valid descriptor succeeds and leaves
\* it holding INVALID_SOCKET; a Close of a handle that holds INVALID_SOCKET
\* reports an error and leaves it invalid; and a Close never succeeds on a
\* handle whose last successful Close was not followed by a successful Create.
C1_CloseContract ==
  [][\A h \in Handles :
       Did("Close", h) =>
         /\ sockfd'[h] = INVALID_SOCKET
         /\ (sockfd[h] # INVALID_SOCKET => res'.status = "ok")
         /\ (sockfd[h] = INVALID_SOCKET => res'.status = "fatal")
         /\ (res'.status = "ok" => hist[h] # "closed")]_vars

\* a second Close of a closed handle has been reported as an error
C1_Witness ==
  \E h \in Handles :
    /\ res.op = "Close" /\ res.h = h /\ res.status = "fatal"
    /\ hist[h] = "closed"

\* C7 as stated: once a Close of h has succeeded, h never holds a valid
\* descriptor again
C7_ClosedIsTerminal ==
  \A h \in Handles : hist[h] # "new" => sockfd[h] = INVALID_SOCKET

\* C7 as amended: a closed handle holds INVALID_SOCKET until a successful
\* Create on that handle, and no other operation makes it valid again
C7_ClosedUntilCreate ==
  [][\A h \in Handles :
       /\ (hist'[h] = "closed" => sockfd'[h] = INVALID_SOCKET)
       /\ (hist[h] = "closed" /\ sockfd'[h] # INVALID_SOCKET =>
             Did("Create", h) /\ res'.status = "ok")]_vars

\* a handle that was closed holds a valid descriptor again
C7_Witness ==
  \E h \in Handles : hist[h] = "reopened" /\ Valid(h)

\* C8 as stated: an operation whose underlying call fails with would-block
\* returns to its caller
C8_WouldBlockNotFatal ==
  res.errno = "EWOULDBLOCK" => res.status = "ok"

\* C10 as stated: no descriptor value is held by two handles, and every
\* valid handle's descriptor is open
C10_ExclusiveOwner ==
  /\ \A h1, h2 \in Handles :
       Valid(h1) /\ Valid(h2) /\ h1 # h2 => sockfd[h1] # sockfd[h2]
  /\ \A h \in Handles : Valid(h) => IsOpen(sockfd[h])

\* C11: a successful Accept on handle h constructs a new handle that holds a
\* valid, open descriptor different from h's; h holds the descriptor it held,
\* that descriptor is still listening with the blocking mode it had, so
\* accept() on it is not refused as a bad or non-listening descriptor; and a
\* successful Close of a handle releases that handle's descriptor and no
\* other, so the two are closed independently.
C11_AcceptFrame ==
  [][\A h \in Handles :
       /\ Did("Accept", h) /\ res'.status = "ok" =>
            /\ \E newh \in Handles \ {h} :
                 /\ ~constructed[newh] /\ constructed'[newh]
                 /\ sockfd'[newh] = res'.val
                 /\ sockfd'[newh] # INVALID_SOCKET
                 /\ sockfd'[newh] # sockfd[h]
                 /\ fdtab'[sockfd'[newh]] = "open"
                 /\ \A g \in Handles \ {newh} :
                      constructed'[g] = constructed[g] /\ sockfd'[g] = sockfd[g]
            /\ sockfd'[h] = sockfd[h]
            /\ fdtab[sockfd[h]] = "listening" /\ fdtab'[sockfd[h]] = "listening"
            /\ (sockfd[h] \in nonblock') = (sockfd[h] \in nonblock)
            /\ AcceptErrno(sockfd[h], TRUE)' \in {"none", "EMFILE"}
       /\ Did("Close", h) /\ res'.status = "ok" =>
            \A fd \in Fds \ {sockfd[h]} : fdtab'[fd] = fdtab[fd]]_vars

\* an Accept has returned a handle with a descriptor of its own, and the
\* listening handle still holds its listening descriptor
C11_Witness ==
  /\ res.op = "Accept" /\ res.status = "ok"
  /\ Valid(res.h) /\ fdtab[sockfd[res.h]] = "listening"
  /\ \E newh \in Handles \ {res.h} :
       Valid(newh) /\ sockfd[newh] = res.val /\ sockfd[newh] # sockfd[res.h]

\* C12: a Connect never ends in a fatal error: it returns true when
\* connect() succeeded and false for every failure of connect(), and leaves
\* every handle's descriptor and the kernel's descriptors as they were, so a
\* handle that was valid is still valid.
C12_ConnectNeverFatal ==
  [][\A h \in Handles :
       Did("Connect", h) =>
         /\ res'.status = "ok"
         /\ res'.val \in {0, 1}
         /\ (res'.val = 1) = (res'.errno = "none")
         /\ (res'.val = 1 => IsOpen(sockfd[h]))
         /\ sockfd' = sockfd /\ fdtab' = fdtab /\ nonblock' = nonblock
         /\ (Valid(h) => Valid(h)')]_vars

\* a Connect on a valid handle has returned false after a refused connection
C12_Witness ==
  /\ res.op = "Connect" /\ res.status = "ok" /\ res.val = 0
  /\ res.errno = "ECONNREFUSED" /\ Valid(res.h) /\ IsOpen(sockfd[res.h])

\* C16 as stated: a Create, Bind, Listen, Accept or SetNonBlock whose
\* underlying call failed with an errno other than would-block has ended in a
\* fatal error
C16_FailureIsFatal ==
  /\ res.op \in {"Create", "Bind", "Listen", "Accept", "SetNonBlock"}
  /\ res.errno \notin {"none", "EWOULDBLOCK"}
  => res.status = "fatal"

\* C20 as stated: a Startup ends in a fatal error only if WSAStartup failed
\* or the version it found is not 2.2, and never in the build without
\* _WIN32; a Finalize never ends in one
C20_StartupFatalOnlyOnFailure ==
  /\ res.op = "Startup" /\ res.status = "fatal" =>
       /\ wsa.win32
       /\ res.errno # "none" \/ wsa.version # <<2, 2>>
  /\ res.op = "Finalize" => res.status = "ok"

(* ======================== properties of the scan ======================= *)
\* the binds made so far are to start_port, start_port + 1, ... in order
TriedInOrder ==
  \A i \in 1..Len(tb.tried) : tb.tried[i].port = tb.start_port + i - 1

\* C2: a port p returned by TryBindHost lies in [start_port, end_port), the
\* bind to p succeeded, and every port from start_port up to p - 1 was bound
\* to before it and failed with EADDRINUSE.
C2_ReturnedPort ==
  tb.pc = "returned" /\ tb.ret # NoPort =>
    /\ tb.start_port <= tb.ret /\ tb.ret < tb.end_port
    /\ Len(tb.tried) = tb.ret - tb.start_port + 1
    /\ TriedInOrder
    /\ tb.tried[Len(tb.tried)] = [port |-> tb.ret, errno |-> "none"]
    /\ \A i \in 1..(Len(tb.tried) - 1) : tb.tried[i].errno = "EADDRINUSE"

\* a port after two ports in use has been returned
C2_Witness ==
  tb.pc = "returned" /\ tb.ret = tb.start_port + 2

\* every port of [start_port, end_port) was bound to and was in use
AllInUse ==
  /\ Len(tb.tried) = (IF tb.end_port > tb.start_port
                      THEN tb.end_port - tb.start_port ELSE 0)
  /\ TriedInOrder
  /\ \A i \in 1..Len(tb.tried) : tb.tried[i].errno = "EADDRINUSE"

\* C3: a finished TryBindHost has returned NoPort exactly when every port of
\* [start_port, end_port) failed with EADDRINUSE (none at all when the range is
\* empty); a bind that fails with another errno is the last bind made, at the
\* port where the call ends in a fatal error.
C3_NoPortAndFatal ==
  /\ tb.pc \in {"returned", "fatal"} =>
       ((tb.pc = "returned" /\ tb.ret = NoPort) <=> AllInUse)
  /\ \A i \in 1..Len(tb.tried) :
       tb.tried[i].errno \notin {"none", "EADDRINUSE"} =>
         /\ i = Len(tb.tried)
         /\ tb.pc = "fatal"
         /\ tb.port = tb.tried[i].port
  /\ tb.pc = "fatal" =>
       /\ tb.tried # <<>>
       /\ tb.tried[Len(tb.tried)].errno \notin {"none", "EADDRINUSE"}

\* NoPort was returned after the two ports of the range were found in use
C3_Witness ==
  /\ tb.pc = "returned" /\ tb.ret = NoPort
  /\ Len(tb.tried) = 2 /\ tb.end_port = tb.start_port + 2

(* ===================== properties of the transfers ===================== *)
\* the bytes moved by the underlying calls of a call: the sum of their
\* positive results
RECURSIVE Moved(_)
Moved(calls) ==
  IF calls = <<>> THEN 0
  ELSE Moved(SubSeq(calls, 1, Len(calls) - 1))
       + (IF calls[Len(calls)].got > 0 THEN calls[Len(calls)].got ELSE 0)

\* C4: both ends blocking and the connection not interrupted: SendAll of
\* the buffer returns its length, and RecvAll for the same length returns
\* that length with the buffer received equal to the buffer sent, however
\* send() and recv() split it.
C4_SendAllRecvAll ==
  ~link.snb /\ ~link.rnb /\ ~link.broken /\ snd.op = "SendAll" =>
    /\ snd.pc # "fatal"
    /\ snd.pc = "returned" => snd.ret = Len(sbuf)
    /\ rcv.op = "RecvAll" /\ rcv.len = Len(sbuf) =>
         /\ rcv.pc # "fatal"
         /\ rcv.pc = "returned" => rcv.ret = Len(sbuf) /\ rbuf = sbuf

\* a buffer of MaxLen bytes, not all the same, has been sent in two or more
\* send() calls and received in two or more recv() calls
C4_Witness ==
  /\ ~link.snb /\ ~link.rnb /\ ~link.broken
  /\ snd.op = "SendAll" /\ snd.pc = "returned" /\ Len(snd.calls) >= 2
  /\ rcv.op = "RecvAll" /\ rcv.pc = "returned" /\ Len(rcv.calls) >= 2
  /\ rcv.len = MaxLen /\ Len(sbuf) = MaxLen /\ sbuf[1] # sbuf[MaxLen]
  /\ rbuf = sbuf

\* C5: the peer has sent N bytes and shut down its write side: a blocking
\* RecvAll that asked for more than N bytes returns N with those bytes at the
\* start of its buffer, and does not end in an error, however recv() split
\* them.
C5_PartialOnShutdown ==
  ~link.rnb /\ ~link.broken /\ rcv.op = "RecvAll" =>
    /\ rcv.pc # "fatal"
    /\ rcv.pc = "returned" /\ link.shut /\ rcv.len > Len(sentlog) =>
         /\ rcv.ret = Len(sentlog)
         /\ SubSeq(rbuf, 1, rcv.ret) = sentlog

\* two bytes came in two recv() calls, then the shutdown ended a RecvAll
\* that asked for more
C5_Witness ==
  /\ ~link.rnb /\ ~link.broken /\ link.shut
  /\ rcv.op = "RecvAll" /\ rcv.pc = "returned"
  /\ Len(sentlog) = 2 /\ rcv.len > 2 /\ rcv.ret = 2 /\ Len(rcv.calls) = 3

\* C15 as stated, by the measure len - ndone: every turn of the loop of
\* SendAll and of RecvAll, whatever send() or recv() returned, either ends
\* the call (with a result or a fatal error) or adds to ndone, so that a call
\* makes at most len turns.
C15_EveryTurnEndsOrAdvances ==
  [][/\ (snd.pc = "loop" /\ snd' # snd) =>
          (snd'.pc # "loop" \/ snd'.ndone > snd.ndone)
     /\ (rcv.pc = "loop" /\ rcv' # rcv) =>
          (rcv'.pc # "loop" \/ rcv'.ndone > rcv.ndone)]_vars

\* C17 for one call c
ZeroLength(c) ==
  c.op # "none" /\ c.len = 0 =>
    /\ c.calls = <<>>
    /\ c.pc # "fatal"
    /\ c.pc = "returned" => c.ret = 0

\* C17: a Send, Recv, SendAll or RecvAll with len = 0 makes no call of
\* send() or recv(), does not end in an error, and returns 0, whether the
\* ends are blocking or not, whether the connection is full or broken, and
\* for the receiving end whether its peer has shut down.
C17_ZeroLength ==
  ZeroLength(snd) /\ ZeroLength(rcv)

\* on a broken connection, a Send of 0 bytes and a RecvAll of 0 bytes have
\* returned 0
C17_Witness ==
  /\ link.broken
  /\ snd.op = "Send" /\ snd.len = 0 /\ snd.pc = "returned" /\ snd.ret = 0
  /\ rcv.op = "RecvAll" /\ rcv.len = 0 /\ rcv.pc = "returned" /\ rcv.ret = 0

\* C9 for one call c of SendAll or RecvAll
CountsOf(c) ==
  c.op \in {"SendAll", "RecvAll"} =>
    /\ \A i \in 1..Len(c.calls) :
         /\ c.calls[i].req = c.len - Moved(SubSeq(c.calls, 1, i - 1))
         /\ c.calls[i].got = -1 =>
              /\ i = Len(c.calls)
              /\ WouldBlock(c.calls[i].errno) => c.pc = "returned"
              /\ ~WouldBlock(c.calls[i].errno) => c.pc = "fatal"
    /\ c.pc = "returned" =>
         /\ c.ret = Moved(c.calls)
         /\ 0 <= c.ret /\ c.ret <= c.len

\* C9: a SendAll or RecvAll that returns (on would-block too) returns the sum
\* of the byte counts of its successful underlying calls, between 0 and len;
\* each underlying call asks for len minus the bytes moved so far; a failure
\* that is not would-block ends the call in a fatal error.
C9_PartialCount ==
  CountsOf(snd) /\ CountsOf(rcv)

\* a SendAll has returned a partial count after a would-block
C9_Witness ==
  /\ snd.op = "SendAll" /\ snd.pc = "returned"
  /\ 0 < snd.ret /\ snd.ret < snd.len
  /\ snd.calls[Len(snd.calls)].errno = "EWOULDBLOCK"

(* ===================== properties of the multiplexer =================== *)
\* the descriptors registered in list i when the last Select was called
RegisteredAtCall(i) == sel.reg[i]

\* C13: after a Select has returned, CheckRead(fd), CheckWrite(fd) and
\* CheckExcept(fd) are true only for a descriptor that was in the matching
\* list when that Select was called and that select() reported ready in that
\* call; what the sets held before the call (from an earlier Select or from
\* the uninitialized object) is not in them.
C13_CheckIsLastSelect ==
  sel.pc = "returned" =>
    \A fd \in Fds :
      /\ CheckRead(fd) => fd \in RegisteredAtCall(1) /\ fd \in sel.ready[1]
      /\ CheckWrite(fd) => fd \in RegisteredAtCall(2) /\ fd \in sel.ready[2]
      /\ CheckExcept(fd) => fd \in RegisteredAtCall(3) /\ fd \in sel.ready[3]

\* a Select with descriptors 0 and 1 registered for reading has returned
\* with 0 ready: CheckRead(0) is true and CheckRead(1) is not
C13_Witness ==
  /\ sel.pc = "returned" /\ RegisteredAtCall(1) = {0, 1}
  /\ CheckRead(0) /\ ~CheckRead(1) /\ sel.ret = 1

\* the descriptors in the three lists
AllRegistered == Members(read_fds) \cup Members(write_fds) \cup Members(except_fds)

SetMax(S) == CHOOSE m \in S : \A x \in S : x <= m

NoneRegistered == read_fds = <<>> /\ write_fds = <<>> /\ except_fds = <<>>

\* C14: maxfd is the largest descriptor in the three lists, and 0 when the
\* three lists are empty; a step that removes a registration or lowers maxfd
\* empties the three lists and sets maxfd to 0, and so does every Clear.
C14_TrackedMaximum ==
  /\ [](maxfd = IF AllRegistered = {} THEN 0 ELSE SetMax(AllRegistered))
  /\ [][((Registered' < Registered \/ maxfd' < maxfd) =>
            (NoneRegistered' /\ maxfd' = 0))
        /\ (Clear => (NoneRegistered' /\ maxfd' = 0))]_vars

\* descriptor 0 is the only one registered, after a Select that was called
\* with descriptor MaxFd registered: a Clear has reset maxfd
C14_Witness ==
  /\ AllRegistered = {0} /\ maxfd = 0
  /\ sel.pc = "returned" /\ sel.nfds = MaxFd + 1

\* the descriptors of the three lists
RegisteredNow == <<Members(read_fds), Members(write_fds), Members(except_fds)>>

\* C18: a step of Select (its call, its return, its failure) leaves the
\* three lists and maxfd as they were, so that after the Select the lists
\* hold the descriptors it waited on; and a Select called while the lists
\* hold the descriptors the Select before it waited on passes the same three
\* sets and the same nfds to select().
C18_SelectKeepsRegistrations ==
  [][/\ (sel' # sel \/ read_set' # read_set \/ write_set' # write_set
            \/ except_set' # except_set) =>
          /\ UNCHANGED <<read_fds, write_fds, except_fds, maxfd>>
          /\ RegisteredNow' = sel'.reg /\ maxfd' + 1 = sel'.nfds
     /\ (sel.pc \in {"returned", "fatal"} /\ sel'.pc = "waiting"
           /\ RegisteredNow = sel.reg) =>
          /\ sel'.reg = sel.reg /\ sel'.nfds = sel.nfds
          /\ <<read_set', write_set', except_set'>> = sel.reg]_vars

\* a Select that waited on MaxWatch registrations has returned with a
\* descriptor ready, and the lists still hold what it waited on
C18_Witness ==
  /\ sel.pc = "returned" /\ sel.ret > 0 /\ sel.watched = MaxWatch
  /\ Registered = MaxWatch /\ RegisteredNow = sel.reg

C6_EmptySelectReturns ==
  /\ [](sel.watched = 0 /\ sel.timeout > 0 /\ sel.pc # "waiting" =>
          sel.pc = "returned" /\ sel.ret = 0)
  /\ (sel.pc = "waiting" /\ sel.watched = 0 /\ sel.timeout > 0)
       ~> (sel.pc = "returned" /\ sel.ret = 0)

\* a Select with nothing registered and a timeout of 2500 ms, passed as 2 s
\* and 500000 us, has returned 0
C6_Witness ==
  /\ sel.pc = "returned" /\ sel.watched = 0 /\ sel.timeout = 2500
  /\ sel.ret = 0 /\ sel.tm.tv_sec = 2 /\ sel.tm.tv_usec = 500000

====
